---- MODULE Spec2Model ----
(***************************************************************************)
(* AutomationTrackNode as a VCS::TrackedItem: its six deltas, the payload  *)
(* serializers, the checkout (resetStateTo) and the full-tree              *)
(* serialize / deserialize pair.                                           *)
(*                                                                         *)
(* A juce::String is a sequence of character codes.  Codes 0..15 are the   *)
(* hexadecimal digit characters '0'..'f', 16 is '#', larger codes are       *)
(* letters.                                                                *)
(*                                                                         *)
(* Record constructors list their fields in the order TLC keeps them in,   *)
(* so that values shared between TLC's workers are never reordered.        *)
(***************************************************************************)
EXTENDS Integers, Sequences, FiniteSets, TLC

VARIABLES node, last

vars == <<node, last>>

(* ------------------------------ bounds -------------------------------- *)

MaxEvents == 2
MaxClips == 1

(* --------------------------- small helpers ---------------------------- *)

EmptyString == <<>>

Range(s) == {s[i] : i \in 1..Len(s)}

Last(s) == s[Len(s)]

(* --------------------------- delta kinds ------------------------------ *)

trackPath == "trackPath"
trackColour == "trackColour"
trackInstrument == "trackInstrument"
trackController == "trackController"
eventsAdded == "eventsAdded"
clipsAdded == "clipsAdded"

(* kinds other tracked items declare (a piano track, a project info) *)
notesAdded == "notesAdded"
projectLicense == "projectLicense"

KnownKinds ==
    {trackPath, trackColour, trackInstrument, trackController, eventsAdded, clipsAdded}

(* child node types *)
automationEvent == "automationEvent"
note == "note"
clip == "clip"
automation == "automation"
pattern == "pattern"
treeNode == "treeNode"

(* --------------------------- value pools ------------------------------ *)

NamePool == {<<20, 21>>, <<20, 22>>}
InstrumentPool == {EmptyString, <<30>>}
ControllerPool == {0, 7}

(* an event or a clip as a child node of a serialized tree *)
Child(t, i, b, v) == [type |-> t, id |-> i, beat |-> b, value |-> v]

EventPool == {[id |-> 1, beat |-> 0, value |-> 0],
              [id |-> 2, beat |-> 4, value |-> 1],
              [id |-> 3, beat |-> 4, value |-> 0]}

ClipPool == {[id |-> 1, beat |-> 0], [id |-> 2, beat |-> 8]}

(* --------------------------- juce::Colour ----------------------------- *)

(* A Colour is its 32-bit ARGB word, written as its eight hexadecimal     *)
(* digits, most significant first.                                        *)
Transparent == <<0, 0, 0, 0, 0, 0, 0, 0>>
White == <<15, 15, 15, 15, 15, 15, 15, 15>>
(* a faint red, 08ff0000: its string "8ff0000" has seven digits *)
FaintRed == <<0, 8, 15, 15, 0, 0, 0, 0>>

(* String::toHexString: no leading zeros, "0" for zero *)
RECURSIVE toHexString(_)
toHexString(digits) ==
    IF Len(digits) > 1 /\ Head(digits) = 0 THEN toHexString(Tail(digits)) ELSE digits

Colour_toString(argb) == toHexString(argb)

(* HexParser<int>::parse: result = (result << 4) | digit for every hex     *)
(* character, other characters skipped, in 32 bits                         *)
RECURSIVE HexParse(_, _)
HexParse(s, acc) ==
    IF s = <<>> THEN acc
    ELSE IF Head(s) < 16
         THEN HexParse(Tail(s), Append(Tail(acc), Head(s)))
         ELSE HexParse(Tail(s), acc)

Colour_fromString(s) == HexParse(s, Transparent)

ColourPool == {White, FaintRed}

(* ------------------------- SerializedData ----------------------------- *)

(* A payload tree: its type tag, the "delta" property read as a String    *)
(* (str) and as an int (int), and its ordered child nodes.                *)
SerializedData(t) == [type |-> t, str |-> EmptyString, int |-> 0, children |-> <<>>]

hasType(tree, t) == tree.type = t

(* forEachChildWithType: the children of the given type, in document order *)
ChildrenWithType(tree, t) == SelectSeq(tree.children, LAMBDA c : c.type = t)

(* ------------------- sequence and pattern (collaborators) -------------- *)

EventBefore(a, b) == a.beat < b.beat \/ (a.beat = b.beat /\ a.id < b.id)

AddSorted(s, e) ==
    LET k == Cardinality({i \in 1..Len(s) : ~EventBefore(e, s[i])})
    IN SubSeq(s, 1, k) \o <<e>> \o SubSeq(s, k + 1, Len(s))

RemoveAt(s, k) == SubSeq(s, 1, k - 1) \o SubSeq(s, k + 1, Len(s))

AutomationEvent_serialize(e) == Child(automationEvent, e.id, e.beat, e.value)

AutomationEvent_deserialize(c) == [id |-> c.id, beat |-> c.beat, value |-> c.value]

Clip_serialize(c) == Child(clip, c.id, c.beat, 0)

Clip_deserialize(c) == [id |-> c.id, beat |-> c.beat]

BeatRangeOf(events) ==
    IF events = <<>> THEN <<0, 0>> ELSE <<Head(events).beat, Last(events).beat>>

(* ------------------------- the entity's state -------------------------- *)

NoDescription == [text |-> "", n |-> 0]

Delta(t) == [type |-> t, description |-> NoDescription]

DeltaDescription(text, n) == [text |-> text, n |-> n]

(* the constructor declaring the events delta twice and no clips delta *)
AutomationTrackNode_DuplicateKind(name, uuid) ==
    [events |-> <<>>,
     name |-> name,
     uuid |-> uuid,
     colour |-> White,
     instrumentId |-> EmptyString,
     controller |-> 0,
     range |-> <<0, 0>>,
     clips |-> <<>>,
     deltas |-> <<Delta(trackPath), Delta(trackColour), Delta(trackInstrument),
                  Delta(trackController), Delta(eventsAdded), Delta(eventsAdded)>>]

AutomationTrackNode(name, uuid) ==
    [events |-> <<>>,
     name |-> name,
     uuid |-> uuid,
     colour |-> White,
     instrumentId |-> EmptyString,
     controller |-> 0,
     range |-> <<0, 0>>,
     clips |-> <<>>,
     deltas |-> <<Delta(trackPath), Delta(trackColour), Delta(trackInstrument),
                  Delta(trackController), Delta(eventsAdded), Delta(clipsAdded)>>]

getTrackName(n) == n.name

getNumDeltas(n) == Len(n.deltas)

(* getDelta computing a description only where none was set yet *)
getDelta_Cached(n, index) ==
    LET d == n.deltas[index + 1]
        refreshed ==
            IF d.description # NoDescription THEN d
            ELSE IF d.type = eventsAdded
            THEN IF Len(n.events) = 0
                 THEN [d EXCEPT !.description = DeltaDescription("empty sequence", 0)]
                 ELSE [d EXCEPT !.description = DeltaDescription("{x} events", Len(n.events))]
            ELSE IF d.type = clipsAdded
            THEN IF Len(n.clips) = 0
                 THEN [d EXCEPT !.description = DeltaDescription("empty pattern", 0)]
                 ELSE [d EXCEPT !.description = DeltaDescription("{x} clips", Len(n.clips))]
            ELSE d
    IN [n EXCEPT !.deltas[index + 1] = refreshed]

(* getDelta: refreshes the description of the events and clips deltas and  *)
(* returns the delta; the result is the node with the refreshed delta.     *)
getDelta(n, index) ==
    LET d == n.deltas[index + 1]
        refreshed ==
            IF d.type = eventsAdded
            THEN IF Len(n.events) = 0
                 THEN [d EXCEPT !.description = DeltaDescription("empty sequence", 0)]
                 ELSE [d EXCEPT !.description = DeltaDescription("{x} events", Len(n.events))]
            ELSE IF d.type = clipsAdded
            THEN IF Len(n.clips) = 0
                 THEN [d EXCEPT !.description = DeltaDescription("empty pattern", 0)]
                 ELSE [d EXCEPT !.description = DeltaDescription("{x} clips", Len(n.clips))]
            ELSE d
    IN [n EXCEPT !.deltas[index + 1] = refreshed]

serializePathDelta(n) == [SerializedData(trackPath) EXCEPT !.str = getTrackName(n)]

serializeColourDelta(n) ==
    [SerializedData(trackColour) EXCEPT !.str = Colour_toString(n.colour)]

serializeInstrumentDelta(n) ==
    [SerializedData(trackInstrument) EXCEPT !.str = n.instrumentId]

serializeControllerDelta(n) ==
    [SerializedData(trackController) EXCEPT !.int = n.controller]

serializeEventsDelta(n) ==
    [SerializedData(eventsAdded) EXCEPT
        !.children = [i \in 1..Len(n.events) |-> AutomationEvent_serialize(n.events[i])]]

serializeClipsDelta(n) ==
    [SerializedData(clipsAdded) EXCEPT
        !.children = [i \in 1..Len(n.clips) |-> Clip_serialize(n.clips[i])]]

(* the value getDeltaData returns, and whether its jassertfalse was reached *)
getDeltaDataFor(n, t) ==
    IF t = trackPath THEN serializePathDelta(n)
    ELSE IF t = trackColour THEN serializeColourDelta(n)
    ELSE IF t = trackInstrument THEN serializeInstrumentDelta(n)
    ELSE IF t = trackController THEN serializeControllerDelta(n)
    ELSE IF t = eventsAdded THEN serializeEventsDelta(n)
    ELSE IF t = clipsAdded THEN serializeClipsDelta(n)
    ELSE SerializedData("")

getDeltaData(n, deltaIndex) == getDeltaDataFor(n, n.deltas[deltaIndex + 1].type)

getDeltaDataAsserts(n, deltaIndex) == n.deltas[deltaIndex + 1].type \notin KnownKinds

(* ------------------------ the checkout handlers ------------------------ *)

(* A handler works on st = [node, calls, fault, at]: the entity, the log   *)
(* of the calls made on it so far, whether a jassert has failed, and the   *)
(* index of the foreign delta being applied.                               *)

NoChild == Child("", 0, 0, 0)

Call(st, fn, str, int, child) ==
    [st EXCEPT !.calls = Append(@, [str |-> str, int |-> int, colour |-> Transparent,
                                    fn |-> fn, child |-> child, at |-> st.at])]

jassert(st, cond) == [st EXCEPT !.fault = @ \/ ~cond]

(* setters of MidiTrackNode, called with sendNotifications = false *)
setXPath(st, path) ==
    [Call(st, "setXPath", path, 0, NoChild) EXCEPT !.node.name = path]

setTrackColour(st, colour) ==
    LET s1 == Call(st, "setTrackColour", EmptyString, 0, NoChild)
    IN [s1 EXCEPT !.calls[Len(s1.calls)].colour = colour, !.node.colour = colour]

setTrackInstrumentId(st, id) ==
    [Call(st, "setTrackInstrumentId", id, 0, NoChild) EXCEPT !.node.instrumentId = id]

setTrackControllerNumber(st, cc) ==
    [Call(st, "setTrackControllerNumber", EmptyString, cc, NoChild)
        EXCEPT !.node.controller = cc]

(* MidiSequence / Pattern *)
Sequence_reset(st) ==
    [Call(st, "Sequence::reset", EmptyString, 0, NoChild) EXCEPT !.node.events = <<>>]

checkoutEvent(st, e) ==
    [Call(st, "checkoutEvent", EmptyString, 0, e)
        EXCEPT !.node.events = AddSorted(@, AutomationEvent_deserialize(e))]

updateBeatRange(st) ==
    [Call(st, "updateBeatRange", EmptyString, 0, NoChild)
        EXCEPT !.node.range = BeatRangeOf(st.node.events)]

Pattern_reset(st) ==
    [Call(st, "Pattern::reset", EmptyString, 0, NoChild) EXCEPT !.node.clips = <<>>]

silentImport(st, c) ==
    [Call(st, "silentImport", EmptyString, 0, c)
        EXCEPT !.node.clips = AddSorted(@, Clip_deserialize(c))]

(* resetPathDelta guarded like resetColourDelta *)
resetPathDelta_SkipIfUnchanged(st, state) ==
    LET s1 == jassert(st, hasType(state, trackPath))
    IN IF state.str # getTrackName(s1.node) THEN setXPath(s1, state.str) ELSE s1

resetPathDelta(st, state) ==
    setXPath(jassert(st, hasType(state, trackPath)), state.str)

resetColourDelta(st, state) ==
    LET s1 == Call(jassert(st, hasType(state, trackColour)),
                   "resetColourDelta", state.str, 0, NoChild)
        colour == Colour_fromString(state.str)
    IN IF colour # s1.node.colour THEN setTrackColour(s1, colour) ELSE s1

resetInstrumentDelta(st, state) ==
    setTrackInstrumentId(jassert(st, hasType(state, trackInstrument)), state.str)

resetControllerDelta(st, state) ==
    setTrackControllerNumber(jassert(st, hasType(state, trackController)), state.int)

RECURSIVE checkoutEvents(_, _)
checkoutEvents(st, children) ==
    IF children = <<>> THEN st
    ELSE checkoutEvents(checkoutEvent(st, Head(children)), Tail(children))

(* resetEventsDelta that does not clear the sequence *)
resetEventsDelta_NoClear(st, state) ==
    updateBeatRange(checkoutEvents(jassert(st, hasType(state, eventsAdded)),
                                   ChildrenWithType(state, automationEvent)))

(* resetEventsDelta recomputing the beat range before the events are in *)
resetEventsDelta_RangeFirst(st, state) ==
    LET s1 == Sequence_reset(jassert(st, hasType(state, eventsAdded)))
    IN checkoutEvents(updateBeatRange(s1), ChildrenWithType(state, automationEvent))

resetEventsDelta(st, state) ==
    LET s1 == Sequence_reset(jassert(st, hasType(state, eventsAdded)))
        s2 == checkoutEvents(s1, ChildrenWithType(state, automationEvent))
    IN updateBeatRange(s2)

RECURSIVE importClips(_, _)
importClips(st, children) ==
    IF children = <<>> THEN st
    ELSE importClips(silentImport(st, Head(children)), Tail(children))

resetClipsDelta(st, state) ==
    LET s1 == Pattern_reset(jassert(st, hasType(state, clipsAdded)))
    IN importClips(s1, ChildrenWithType(state, clip))

(* ----------------------------- resetStateTo ---------------------------- *)

(* A foreign tracked item as resetStateTo reads it: for each index the     *)
(* delta's type (getDelta) and its payload (getDeltaData).                 *)
ItemDelta(t, data) == [type |-> t, data |-> data]

TrackedItemOf(n) ==
    [i \in 1..getNumDeltas(n) |->
        ItemDelta(getDelta(n, i - 1).deltas[i].type, getDeltaData(n, i - 1))]

(* the dispatch with the instrument arm calling the path handler *)
resetDelta_InstrumentAsPath(st, newDelta, newDeltaData) ==
    IF newDelta = trackPath THEN resetPathDelta(st, newDeltaData)
    ELSE IF newDelta = trackColour THEN resetColourDelta(st, newDeltaData)
    ELSE IF newDelta = trackInstrument THEN resetPathDelta(st, newDeltaData)
    ELSE IF newDelta = trackController THEN resetControllerDelta(st, newDeltaData)
    ELSE IF newDelta = eventsAdded THEN resetEventsDelta(st, newDeltaData)
    ELSE IF newDelta = clipsAdded THEN resetClipsDelta(st, newDeltaData)
    ELSE st

(* the dispatch by position: a foreign delta is applied only where the     *)
(* entity declares the same kind at the same index, and asserts otherwise  *)
resetDelta_Positional(st, newDelta, newDeltaData) ==
    IF st.at >= getNumDeltas(st.node) \/ st.node.deltas[st.at + 1].type # newDelta
    THEN jassert(st, FALSE)
    ELSE IF newDelta = trackPath THEN resetPathDelta(st, newDeltaData)
    ELSE IF newDelta = trackColour THEN resetColourDelta(st, newDeltaData)
    ELSE IF newDelta = trackInstrument THEN resetInstrumentDelta(st, newDeltaData)
    ELSE IF newDelta = trackController THEN resetControllerDelta(st, newDeltaData)
    ELSE IF newDelta = eventsAdded THEN resetEventsDelta(st, newDeltaData)
    ELSE IF newDelta = clipsAdded THEN resetClipsDelta(st, newDeltaData)
    ELSE st

(* the body of the loop: dispatch on the kind of the foreign delta *)
resetDelta(st, newDelta, newDeltaData) ==
    IF newDelta = trackPath THEN resetPathDelta(st, newDeltaData)
    ELSE IF newDelta = trackColour THEN resetColourDelta(st, newDeltaData)
    ELSE IF newDelta = trackInstrument THEN resetInstrumentDelta(st, newDeltaData)
    ELSE IF newDelta = trackController THEN resetControllerDelta(st, newDeltaData)
    ELSE IF newDelta = eventsAdded THEN resetEventsDelta(st, newDeltaData)
    ELSE IF newDelta = clipsAdded THEN resetClipsDelta(st, newDeltaData)
    ELSE st

RECURSIVE resetStateToFrom(_, _, _)
resetStateToFrom(st, newState, i) ==
    IF i < Len(newState)
    THEN resetStateToFrom(
            resetDelta([st EXCEPT !.at = i], newState[i + 1].type, newState[i + 1].data),
            newState, i + 1)
    ELSE st

(* resetStateTo that first empties the sequence and the pattern *)
resetStateTo_ClearFirst(n, newState) ==
    resetStateToFrom([node |-> [n EXCEPT !.events = <<>>, !.clips = <<>>],
                      calls |-> <<>>, fault |-> FALSE, at |-> 0], newState, 0)

resetStateTo(n, newState) ==
    resetStateToFrom([node |-> n, calls |-> <<>>, fault |-> FALSE, at |-> 0], newState, 0)

(* ------------------------ serialize / deserialize ---------------------- *)

Sequence_serialize(n) ==
    [type |-> automation,
     children |-> [i \in 1..Len(n.events) |-> AutomationEvent_serialize(n.events[i])]]

Pattern_serialize(n) ==
    [type |-> pattern,
     children |-> [i \in 1..Len(n.clips) |-> Clip_serialize(n.clips[i])]]

(* serializeVCSUuid, the node's name, serializeTrackProperties, then the   *)
(* sequence and the pattern as children                                    *)
serialize(n) ==
    [type |-> treeNode,
     children |-> <<Sequence_serialize(n), Pattern_serialize(n)>>,
     name |-> n.name,
     uuid |-> n.uuid,
     colour |-> Colour_toString(n.colour),
     instrumentId |-> n.instrumentId,
     controller |-> n.controller]

Sequence_deserialize(n, e) ==
    updateBeatRange(checkoutEvents(
        Sequence_reset([node |-> n, calls |-> <<>>, fault |-> FALSE, at |-> 0]),
        ChildrenWithType(e, automationEvent))).node

Pattern_deserialize(n, e) ==
    importClips(
        Pattern_reset([node |-> n, calls |-> <<>>, fault |-> FALSE, at |-> 0]),
        ChildrenWithType(e, clip)).node

deserializeVCSUuid(n, data) == [n EXCEPT !.uuid = data.uuid]

deserializeTrackProperties(n, data) ==
    [n EXCEPT !.colour = Colour_fromString(data.colour),
              !.instrumentId = data.instrumentId,
              !.controller = data.controller]

RECURSIVE deserializeSequences(_, _)
deserializeSequences(n, es) ==
    IF es = <<>> THEN n
    ELSE deserializeSequences(Sequence_deserialize(n, Head(es)), Tail(es))

RECURSIVE deserializePatterns(_, _)
deserializePatterns(n, es) ==
    IF es = <<>> THEN n
    ELSE deserializePatterns(Pattern_deserialize(n, Head(es)), Tail(es))

TreeNode_deserialize(n, data) == [n EXCEPT !.name = data.name]

(* deserialize that leaves the sequence as it was *)
deserialize_NoSequence(n, data) ==
    LET n1 == deserializeTrackProperties(deserializeVCSUuid(n, data), data)
        n3 == deserializePatterns(n1, ChildrenWithType(data, pattern))
    IN TreeNode_deserialize(n3, data)

(* this->reset() deletes the child tree nodes, which a track does not have *)
deserialize(n, data) ==
    LET n1 == deserializeTrackProperties(deserializeVCSUuid(n, data), data)
        n2 == deserializeSequences(n1, ChildrenWithType(data, automation))
        n3 == deserializePatterns(n2, ChildrenWithType(data, pattern))
    IN TreeNode_deserialize(n3, data)

(* ------------------------------ inputs --------------------------------- *)

RECURSIVE SortedSeqOf(_)
SortedSeqOf(S) ==
    IF S = {} THEN <<>>
    ELSE LET x == CHOOSE y \in S : TRUE IN AddSorted(SortedSeqOf(S \ {x}), x)

SortedSeqs(pool, max) ==
    {SortedSeqOf(S) : S \in {T \in SUBSET pool : Cardinality(T) <= max}}

(* the states of an automation track that serve as the source of a       *)
(* checkout or of a load: every event list and clip list, with the scalar  *)
(* fields all at their defaults or all changed                             *)
ScalarSamples == {<<<<20, 21>>, White, EmptyString, 0>>, <<<<20, 22>>, FaintRed, <<30>>, 7>>}

NodeWith(sc, ev, cl) ==
    [AutomationTrackNode(sc[1], <<41>>) EXCEPT
        !.colour = sc[2], !.instrumentId = sc[3], !.controller = sc[4],
        !.events = ev, !.range = BeatRangeOf(ev), !.clips = cl]

SourceNodes ==
    {NodeWith(sc, ev, cl) :
        sc \in ScalarSamples, ev \in SortedSeqs(EventPool, MaxEvents),
        cl \in SortedSeqs(ClipPool, MaxClips)}

(* fewer sources: the default scalars, some event lists, some clip lists *)
FewNodes ==
    {NodeWith(<<<<20, 21>>, White, EmptyString, 0>>, ev, cl) :
        ev \in {e \in SortedSeqs(EventPool, MaxEvents) : Len(e) # 1},
        cl \in {c \in SortedSeqs(ClipPool, MaxClips) : Len(c) # 1}}

EventChild(e) == AutomationEvent_serialize(e)

Ev(i) == CHOOSE e \in EventPool : e.id = i

(* tracked items that are no automation track, or a stored revision of one *)
ForeignItems ==
    { (* a subset of the kinds; the colour written as "#08ff0000" *)
      <<ItemDelta(trackColour,
            [SerializedData(trackColour) EXCEPT !.str = <<16, 0, 8, 15, 15, 0, 0, 0, 0>>])>>,
      (* the colour twice *)
      <<ItemDelta(trackColour,
            [SerializedData(trackColour) EXCEPT !.str = <<8, 15, 15, 0, 0, 0, 0>>]),
        ItemDelta(trackColour,
            [SerializedData(trackColour) EXCEPT !.str = <<15, 15, 15, 15, 15, 15, 15, 15>>])>>,
      (* the six kinds in another order *)
      <<ItemDelta(clipsAdded, SerializedData(clipsAdded)),
        ItemDelta(eventsAdded,
            [SerializedData(eventsAdded) EXCEPT !.children = <<EventChild(Ev(1))>>]),
        ItemDelta(trackController, [SerializedData(trackController) EXCEPT !.int = 7]),
        ItemDelta(trackInstrument, [SerializedData(trackInstrument) EXCEPT !.str = <<30>>]),
        ItemDelta(trackColour,
            [SerializedData(trackColour) EXCEPT !.str = <<8, 15, 15, 0, 0, 0, 0>>]),
        ItemDelta(trackPath, [SerializedData(trackPath) EXCEPT !.str = <<20, 22>>])>>,
      (* a piano track: another number of deltas, one of an unknown kind *)
      <<ItemDelta(trackPath, [SerializedData(trackPath) EXCEPT !.str = <<20, 21>>]),
        ItemDelta(trackColour,
            [SerializedData(trackColour) EXCEPT !.str = <<8, 15, 15, 0, 0, 0, 0>>]),
        ItemDelta(trackInstrument, [SerializedData(trackInstrument) EXCEPT !.str = <<30>>]),
        ItemDelta(notesAdded,
            [SerializedData(notesAdded) EXCEPT !.children = <<Child(note, 1, 0, 0)>>]),
        ItemDelta(clipsAdded, SerializedData(clipsAdded))>>,
      (* a project info: no kind in common *)
      <<ItemDelta(projectLicense, [SerializedData(projectLicense) EXCEPT !.str = <<20>>])>>,
      (* events only, its children out of order and of mixed types *)
      <<ItemDelta(eventsAdded,
            [SerializedData(eventsAdded) EXCEPT
                !.children = <<EventChild(Ev(3)), Child(note, 1, 0, 0), EventChild(Ev(1))>>])>>,
      (* a payload of another type than its delta's kind *)
      <<ItemDelta(trackPath, [SerializedData(trackInstrument) EXCEPT !.str = <<20, 22>>])>> }

(* ------------------------------ actions -------------------------------- *)

NoTree == serialize(AutomationTrackNode(EmptyString, EmptyString))

NoLast ==
    [tree |-> NoTree, index |-> 0, calls |-> <<>>, fault |-> FALSE,
     data |-> SerializedData(""), op |-> "edit", entity |-> FALSE, item |-> <<>>,
     source |-> AutomationTrackNode(EmptyString, EmptyString), delta |-> Delta("")]

Init ==
    /\ \E nm \in NamePool : node = AutomationTrackNode(nm, <<40>>)
    /\ last = [NoLast EXCEPT !.op = "new"]

(* user edits, through the setters and the sequence / pattern *)
Rename ==
    \E p \in NamePool :
        /\ node' = [node EXCEPT !.name = p]
        /\ last' = NoLast

ChangeColour ==
    \E c \in ColourPool :
        /\ node' = [node EXCEPT !.colour = c]
        /\ last' = NoLast

ChangeInstrument ==
    \E id \in InstrumentPool :
        /\ node' = [node EXCEPT !.instrumentId = id]
        /\ last' = NoLast

ChangeController ==
    \E cc \in ControllerPool :
        /\ node' = [node EXCEPT !.controller = cc]
        /\ last' = NoLast

InsertEvent ==
    \E e \in EventPool :
        /\ Len(node.events) < MaxEvents
        /\ e \notin Range(node.events)
        /\ node' = [node EXCEPT !.events = AddSorted(@, e),
                                !.range = BeatRangeOf(AddSorted(node.events, e))]
        /\ last' = NoLast

RemoveEvent ==
    \E k \in 1..Len(node.events) :
        /\ node' = [node EXCEPT !.events = RemoveAt(@, k),
                                !.range = BeatRangeOf(RemoveAt(node.events, k))]
        /\ last' = NoLast

InsertClip ==
    \E c \in ClipPool :
        /\ Len(node.clips) < MaxClips
        /\ c \notin Range(node.clips)
        /\ node' = [node EXCEPT !.clips = AddSorted(@, c)]
        /\ last' = NoLast

RemoveClip ==
    \E k \in 1..Len(node.clips) :
        /\ node' = [node EXCEPT !.clips = RemoveAt(@, k)]
        /\ last' = NoLast

GetDelta ==
    \E index \in 0..(getNumDeltas(node) - 1) :
        /\ node' = getDelta(node, index)
        /\ last' = [NoLast EXCEPT !.op = "getDelta", !.index = index,
                                  !.delta = getDelta(node, index).deltas[index + 1]]

GetDeltaData ==
    \E deltaIndex \in 0..(getNumDeltas(node) - 1) :
        /\ node' = node
        /\ last' = [NoLast EXCEPT !.op = "getDeltaData", !.index = deltaIndex,
                                  !.data = getDeltaData(node, deltaIndex),
                                  !.fault = getDeltaDataAsserts(node, deltaIndex)]

ResetTo(newState, isEntity) ==
    \E r \in {resetStateTo(node, newState)} :
       /\ node' = r.node
       /\ last' = [NoLast EXCEPT !.op = "resetStateTo", !.entity = isEntity,
                                 !.item = newState, !.calls = r.calls,
                                 !.fault = r.fault]

(* checkout of another automation track *)
SourceItems == {TrackedItemOf(F) : F \in SourceNodes}

ResetStateTo == \E item \in SourceItems : ResetTo(item, TRUE)

FewItems == {TrackedItemOf(F) : F \in FewNodes}

ResetStateToFew == \E item \in FewItems : ResetTo(item, TRUE)

(* checkout of the track itself *)
ResetStateToSelf == ResetTo(TrackedItemOf(node), TRUE)

(* checkout of some other tracked item *)
ResetStateToForeign == \E item \in ForeignItems : ResetTo(item, FALSE)

Serialize ==
    /\ node' = node
    /\ last' = [NoLast EXCEPT !.op = "serialize", !.tree = serialize(node)]

(* load of the tree another automation track S serialized *)
LoadFrom(S) ==
    \E data \in {serialize(S)} :
        /\ \E n \in {deserialize(node, data)} : node' = n
        /\ last' = [NoLast EXCEPT !.op = "deserialize", !.tree = data, !.source = S]

Deserialize == \E S \in SourceNodes : LoadFrom(S)

DeserializeFew == \E S \in FewNodes : LoadFrom(S)

(* checkout and load of a track that is being edited *)
Next ==
    \/ Rename
    \/ ChangeColour
    \/ ChangeInstrument
    \/ ChangeController
    \/ InsertEvent
    \/ RemoveEvent
    \/ InsertClip
    \/ RemoveClip
    \/ ResetStateTo
    \/ ResetStateToSelf
    \/ ResetStateToForeign
    \/ Deserialize

Spec == Init /\ [][Next]_vars

(* the deltas of a track whose events and clips change *)
NextDeltas ==
    \/ InsertEvent
    \/ RemoveEvent
    \/ InsertClip
    \/ RemoveClip
    \/ GetDelta
    \/ GetDeltaData
    \/ Serialize
    \/ ResetStateToFew
    \/ DeserializeFew

SpecDeltas == Init /\ [][NextDeltas]_vars

(* ------------------------------ properties ----------------------------- *)

DeclaredKinds ==
    <<trackPath, trackColour, trackInstrument, trackController, eventsAdded, clipsAdded>>

(* the observable state: the payload of each of the six delta kinds *)
Observable(n) == [i \in 1..6 |-> getDeltaDataFor(n, DeclaredKinds[i])]

KindsOf(item) == {item[j].type : j \in 1..Len(item)}

IsReset == last.op = "resetStateTo"

(* the calls the checkout made while it applied the foreign delta j *)
CallsAt(calls, j) == SelectSeq(calls, LAMBDA c : c.at = j - 1)

CalledAt(calls, j, fn) == \E k \in 1..Len(calls) : calls[k].at = j - 1 /\ calls[k].fn = fn

(* C1: after A.resetStateTo(F), F an automation track, A.getDeltaData(i)   *)
(* equals F.getDeltaData(i) for every index i of F.                        *)
C1_CheckoutConvergence ==
    (IsReset /\ last.entity) =>
        \A i \in 0..(Len(last.item) - 1) : getDeltaData(node, i) = last.item[i + 1].data

C1_Witness ==
    /\ IsReset /\ last.entity
    /\ CalledAt(last.calls, 2, "setTrackColour")
    /\ node.colour = FaintRed
    /\ Len(node.events) = 2
    /\ Len(node.clips) = 1

(* C2: a foreign delta of a kind none of the six arms matches makes        *)
(* resetStateTo (and getDeltaData) raise a contract-violation fault.       *)
C2_UnknownKindFatal ==
    /\ (IsReset /\ KindsOf(last.item) \ KnownKinds # {}) => last.fault
    /\ (last.op = "getDeltaData" /\ node.deltas[last.index + 1].type \notin KnownKinds)
            => last.fault

(* C3: a second E.resetStateTo(F) with the same F changes none of the six  *)
(* payloads of E.                                                          *)
C3_CheckoutIdempotent ==
    IsReset => Observable(resetStateTo(node, last.item).node) = Observable(node)

C3_Witness ==
    /\ IsReset /\ last.entity
    /\ Len(last.calls) > 6
    /\ Len(node.events) = 2

(* C4: a checkout leaves every field whose kind the foreign item does not  *)
(* declare as it was.                                                      *)
C4_NoDeletionByAbsence ==
    [][last'.op = "resetStateTo" =>
            \A k \in KnownKinds \ KindsOf(last'.item) :
                getDeltaDataFor(node', k) = getDeltaDataFor(node, k)]_vars

C4_Witness ==
    /\ IsReset
    /\ KindsOf(last.item) = {trackColour}
    /\ CalledAt(last.calls, 1, "setTrackColour")
    /\ Len(node.events) = 2
    /\ Len(node.clips) = 1
    /\ node.controller = 7

Misaligned(item) == [j \in 1..Len(item) |-> item[j].type] # DeclaredKinds

(* the first call each handler makes on the entity *)
HandlerCall(kind) ==
    CASE kind = trackPath -> "setXPath"
      [] kind = trackColour -> "resetColourDelta"
      [] kind = trackInstrument -> "setTrackInstrumentId"
      [] kind = trackController -> "setTrackControllerNumber"
      [] kind = eventsAdded -> "Sequence::reset"
      [] kind = clipsAdded -> "Pattern::reset"
      [] OTHER -> ""

C6_LoadEqualsCheckout ==
    [][last'.op = "deserialize" =>
            \E r \in {resetStateTo(node, TrackedItemOf(last'.source))} :
                Observable(node') = Observable(r.node)]_vars

C6_Witness ==
    /\ last.op = "deserialize"
    /\ last.tree = serialize(last.source)
    /\ node.colour = FaintRed
    /\ Len(node.events) = 2
    /\ Len(node.clips) = 1

(* C7: getDelta on the events-added delta returns the description "empty   *)
(* sequence" when the sequence holds no event and the description carrying *)
(* the current number of events otherwise.                                 *)
C7_DescriptionTracksState ==
    (last.op = "getDelta" /\ last.delta.type = eventsAdded) =>
        last.delta.description =
            IF Len(node.events) = 0
            THEN DeltaDescription("empty sequence", 0)
            ELSE DeltaDescription("{x} events", Len(node.events))

C7_Witness ==
    /\ last.op = "getDelta" /\ last.delta.type = eventsAdded
    /\ last.delta.description.text = "{x} events"
    /\ last.delta.description.n = 2
    /\ node.uuid = <<41>>

C7_WitnessEmpty ==
    /\ last.op = "getDelta" /\ last.delta.type = eventsAdded
    /\ last.delta.description.text = "empty sequence"

(* C8: in every reachable state getNumDeltas() is 6 and getDelta(i) is of  *)
(* kind path, colour, instrument, controller, events-added, clips-added    *)
(* for i = 0..5, one delta per kind.                                       *)
C8_FixedDeltaShape ==
    /\ getNumDeltas(node) = 6
    /\ \A i \in 0..5 : getDelta(node, i).deltas[i + 1].type = DeclaredKinds[i + 1]
    /\ \A i, j \in 1..getNumDeltas(node) :
          node.deltas[i].type = node.deltas[j].type => i = j
    /\ last.op = "getDelta" => last.delta.type = DeclaredKinds[last.index + 1]

C8_Witness ==
    /\ last.op = "getDelta" /\ last.index = 5
    /\ node.deltas[5].description.n = 2
    /\ node.deltas[6].description.text = "{x} clips"
    /\ node.uuid = <<41>>

(* the events an events payload carries, in payload order *)
EventChildren(data) == ChildrenWithType(data, automationEvent)

(* C9: resetEventsDelta clears the sequence, then checks out the payload's *)
(* event children one by one in payload order, then recomputes the beat    *)
(* range once; the sequence then holds exactly the payload's events.       *)
C9_StructuralResetOrder ==
    IsReset =>
        \A j \in 1..Len(last.item) :
            last.item[j].type = eventsAdded =>
                LET cs == CallsAt(last.calls, j)
                    es == EventChildren(last.item[j].data)
                IN /\ Len(cs) = Len(es) + 2
                   /\ cs[1].fn = "Sequence::reset"
                   /\ \A k \in 1..Len(es) :
                         cs[k + 1].fn = "checkoutEvent" /\ cs[k + 1].child = es[k]
                   /\ cs[Len(cs)].fn = "updateBeatRange"
                   /\ (\A m \in (j + 1)..Len(last.item) : last.item[m].type # eventsAdded)
                        => /\ Range(node.events) =
                                {AutomationEvent_deserialize(es[k]) : k \in 1..Len(es)}
                           /\ Len(node.events) = Len(es)
                           /\ node.range = BeatRangeOf(node.events)

C9_Witness ==
    /\ IsReset
    /\ Len(last.item) = 1
    /\ last.item[1].type = eventsAdded
    /\ Len(last.item[1].data.children) = 3
    /\ Len(node.events) = 2
    /\ node.range = <<0, 4>>

(* the colour the entity has when the foreign delta j is applied *)
ColourBefore(n, item, j) ==
    LET earlier == {m \in 1..(j - 1) : item[m].type = trackColour}
    IN IF earlier = {} THEN n.colour
       ELSE Colour_fromString(item[CHOOSE m \in earlier : \A o \in earlier : o <= m].data.str)

(* C10: in a checkout the colour setter is called iff the decoded foreign  *)
(* colour differs from the current one; the path setter and the instrument *)
(* setter are called for every foreign path and instrument delta.          *)
C10_SkipIfUnchangedAsymmetry ==
    [][last'.op = "resetStateTo" =>
            \A j \in 1..Len(last'.item) :
                LET d == last'.item[j]
                IN /\ d.type = trackColour =>
                        (CalledAt(last'.calls, j, "setTrackColour")
                            <=> Colour_fromString(d.data.str) # ColourBefore(node, last'.item, j))
                   /\ d.type = trackPath => CalledAt(last'.calls, j, "setXPath")
                   /\ d.type = trackInstrument =>
                        CalledAt(last'.calls, j, "setTrackInstrumentId")]_vars

C10_Witness ==
    /\ IsReset /\ last.entity
    /\ ~CalledAt(last.calls, 2, "setTrackColour")
    /\ CalledAt(last.calls, 1, "setXPath")
    /\ CalledAt(last.calls, 3, "setTrackInstrumentId")
    /\ last.item = TrackedItemOf(node)

====
